---------------------------- MODULE Spec2Model ----------------------------
(***************************************************************************)
(* A model of credit_balance_flipper.py: process_files, the tag/value      *)
(* parser update_qfx_contents and the sign transformer flip_value.         *)
(*                                                                         *)
(* Text is a sequence of one-character strings, so that the parser's       *)
(* scanning, strip(), upper(), float() and str() are computed, not         *)
(* assumed.  The empty string is << >>.                                    *)
(***************************************************************************)
EXTENDS Integers, Sequences, FiniteSets

(***************************************************************************)
(* Bounds of the model.                                                    *)
(***************************************************************************)
\* Longest document of the structural family, in pieces of Vocabulary.
MaxPieces == 4
\* Longest BALAMT value text of the value family, in characters.
MaxValueLen == 4
\* Largest batch of files given to process_files.
MaxFiles == 2

(***************************************************************************)
(* Python's str operations used by the program.                            *)
(***************************************************************************)
Whitespace == {" ", "\n", "\t", "\r"}

Digits == {"0", "1", "2", "3", "4", "5", "6", "7", "8", "9"}

RECURSIVE lstrip(_)
lstrip(s) ==
    IF s # << >> /\ Head(s) \in Whitespace THEN lstrip(Tail(s)) ELSE s

RECURSIVE rstrip(_)
rstrip(s) ==
    IF s # << >> /\ s[Len(s)] \in Whitespace
    THEN rstrip(SubSeq(s, 1, Len(s) - 1))
    ELSE s

\* str.strip()
strip(s) == rstrip(lstrip(s))

\* str.isspace(): at least one character and all of them whitespace.
isspace(s) == Len(s) > 0 /\ \A k \in 1..Len(s) : s[k] \in Whitespace

UpperChar(c) ==
    CASE c = "a" -> "A" [] c = "b" -> "B" [] c = "d" -> "D" [] c = "e" -> "E"
      [] c = "g" -> "G" [] c = "h" -> "H" [] c = "l" -> "L" [] c = "m" -> "M"
      [] c = "r" -> "R" [] c = "t" -> "T" [] c = "x" -> "X"
      [] OTHER -> c

\* str.upper()
upper(s) == [k \in 1..Len(s) |-> UpperChar(s[k])]

\* str.startswith(p)
startswith(s, p) == Len(s) >= Len(p) /\ SubSeq(s, 1, Len(p)) = p

\* The slice s[1:-1] that renders a stack entry without its angle brackets.
Inner(s) == IF Len(s) <= 2 THEN << >> ELSE SubSeq(s, 2, Len(s) - 1)

\* str.replace(old, new) for a non-empty old: every non-overlapping
\* occurrence, left to right.
RECURSIVE replace(_, _, _)
replace(s, old, new) ==
    IF Len(s) < Len(old) THEN s
    ELSE IF startswith(s, old)
         THEN new \o replace(SubSeq(s, Len(old) + 1, Len(s)), old, new)
         ELSE <<Head(s)>> \o replace(Tail(s), old, new)

\* The number of newline characters of s.
RECURSIVE Newlines(_)
Newlines(s) ==
    IF s = << >> THEN 0
    ELSE (IF Head(s) = "\n" THEN 1 ELSE 0) + Newlines(Tail(s))

(***************************************************************************)
(* float(text) and str(float).  A float is modelled exactly as a decimal:  *)
(* [ok, neg, m, e] is (-1)^neg * m * 10^e with m not divisible by 10       *)
(* (m = 0, e = 0 for zero); ok = FALSE is float() raising ValueError.      *)
(* Exact for the literals of at most 15 significant digits the model       *)
(* draws; "inf", "nan" and "_" are outside the model's alphabet.           *)
(***************************************************************************)
DigitVal(c) ==
    CASE c = "0" -> 0 [] c = "1" -> 1 [] c = "2" -> 2 [] c = "3" -> 3
      [] c = "4" -> 4 [] c = "5" -> 5 [] c = "6" -> 6 [] c = "7" -> 7
      [] c = "8" -> 8 [] c = "9" -> 9

DigitChar(n) ==
    CASE n = 0 -> "0" [] n = 1 -> "1" [] n = 2 -> "2" [] n = 3 -> "3"
      [] n = 4 -> "4" [] n = 5 -> "5" [] n = 6 -> "6" [] n = 7 -> "7"
      [] n = 8 -> "8" [] n = 9 -> "9"

IsDigits(s) == \A k \in 1..Len(s) : s[k] \in Digits

RECURSIVE ToNat(_)
ToNat(ds) ==
    IF ds = << >> THEN 0
    ELSE ToNat(SubSeq(ds, 1, Len(ds) - 1)) * 10 + DigitVal(ds[Len(ds)])

RECURSIVE NatDigits(_)
NatDigits(n) ==
    IF n < 10 THEN <<DigitChar(n)>>
    ELSE Append(NatDigits(n \div 10), DigitChar(n % 10))

RECURSIVE Zeros(_)
Zeros(n) == IF n <= 0 THEN << >> ELSE <<"0">> \o Zeros(n - 1)

\* The first index of s holding a character of set, 0 when there is none.
Find(s, set) ==
    LET ks == {k \in 1..Len(s) : s[k] \in set}
    IN  IF ks = {} THEN 0 ELSE CHOOSE k \in ks : \A j \in ks : k <= j

RECURSIVE Normalise(_, _, _)
Normalise(neg, m, e) ==
    IF m = 0 THEN [ok |-> TRUE, neg |-> neg, m |-> 0, e |-> 0]
    ELSE IF m % 10 = 0 THEN Normalise(neg, m \div 10, e + 1)
    ELSE [ok |-> TRUE, neg |-> neg, m |-> m, e |-> e]

NotAFloat == [ok |-> FALSE, neg |-> FALSE, m |-> 0, e |-> 0]

\* float(s): [sign] (digits [. [digits]] | . digits) [(e|E) [sign] digits]
float(text) ==
    LET s       == strip(text)
        signed  == s # << >> /\ Head(s) \in {"-", "+"}
        neg     == signed /\ Head(s) = "-"
        body    == IF signed THEN Tail(s) ELSE s
        epos    == Find(body, {"e", "E"})
        mant    == IF epos = 0 THEN body ELSE SubSeq(body, 1, epos - 1)
        expo    == IF epos = 0 THEN << >> ELSE SubSeq(body, epos + 1, Len(body))
        esigned == expo # << >> /\ Head(expo) \in {"-", "+"}
        edigits == IF esigned THEN Tail(expo) ELSE expo
        dot     == Find(mant, {"."})
        ip      == IF dot = 0 THEN mant ELSE SubSeq(mant, 1, dot - 1)
        fp      == IF dot = 0 THEN << >> ELSE SubSeq(mant, dot + 1, Len(mant))
        valid   == /\ IsDigits(ip) /\ IsDigits(fp)
                   /\ Len(ip) + Len(fp) >= 1
                   /\ (epos # 0 => (edigits # << >> /\ IsDigits(edigits)))
        eval    == IF esigned /\ Head(expo) = "-"
                   THEN 0 - ToNat(edigits) ELSE ToNat(edigits)
    IN  IF valid
        THEN Normalise(neg, ToNat(ip \o fp), eval - Len(fp))
        ELSE NotAFloat

\* as_float > 0 and as_float < 0 (both false for 0.0 and -0.0)
IsPositive(x) == x.ok /\ x.m # 0 /\ ~x.neg
IsNegative(x) == x.ok /\ x.m # 0 /\ x.neg

\* abs(x) and -abs(x)
abs(x) == [x EXCEPT !.neg = FALSE]
negabs(x) == [x EXCEPT !.neg = TRUE]

\* str(x): repr of a float.  With ds the digits of m and p = Len(ds) + e
\* the value is 0.ds * 10^p; Python switches to exponent notation when
\* the decimal exponent p - 1 is below -4 or at least 16.
str(x) ==
    LET ds   == NatDigits(x.m)
        n    == Len(ds)
        p    == n + x.e
        sign == IF x.neg THEN <<"-">> ELSE << >>
        ex   == p - 1
        exds == NatDigits(IF ex < 0 THEN 0 - ex ELSE ex)
        sci  == <<ds[1]>>
                \o (IF n > 1 THEN <<".">> \o SubSeq(ds, 2, n) ELSE << >>)
                \o <<"e", IF ex < 0 THEN "-" ELSE "+">>
                \o (IF Len(exds) < 2 THEN <<"0">> ELSE << >>) \o exds
        pos  == IF p <= 0 THEN <<"0", ".">> \o Zeros(0 - p) \o ds
                ELSE IF p < n
                     THEN SubSeq(ds, 1, p) \o <<".">> \o SubSeq(ds, p + 1, n)
                     ELSE ds \o Zeros(p - n) \o <<".", "0">>
    IN  IF x.m = 0 THEN sign \o <<"0", ".", "0">>
        ELSE IF ex < -4 \/ ex >= 16 THEN sign \o sci
        ELSE sign \o pos


(***************************************************************************)
(* The program's constants.                                                *)
(***************************************************************************)
TARGET_CATEGORY == <<"<", "L", "E", "D", "G", "E", "R", "B", "A", "L", ">">>

END_TARGET_CATEGORY ==
    <<"<", "/", "L", "E", "D", "G", "E", "R", "B", "A", "L", ">">>

TARGET_PROPERTY == <<"<", "B", "A", "L", "A", "M", "T", ">">>

(***************************************************************************)
(* flip_value(value_string, make_negative).  raised = TRUE is the          *)
(* ValueError of float(); otherwise value_string is the returned text and  *)
(* value_flipped the returned flag.                                        *)
(***************************************************************************)
\* flip_value as it would be without the test of the present sign: every
\* non-zero value is rewritten and reported as flipped.
flip_value_always(value_string, make_negative) ==
    LET trimmed_value == strip(value_string)
        as_float      == float(trimmed_value)
    IN  IF ~as_float.ok
        THEN [raised |-> TRUE, value_string |-> value_string,
              value_flipped |-> FALSE]
        ELSE IF as_float.m # 0
        THEN [raised |-> FALSE,
              value_string |->
                  replace(value_string, trimmed_value,
                          str(IF make_negative THEN negabs(as_float)
                                               ELSE abs(as_float))),
              value_flipped |-> TRUE]
        ELSE [raised |-> FALSE, value_string |-> value_string,
              value_flipped |-> FALSE]

RECURSIVE Pow10(_)
Pow10(n) == IF n <= 0 THEN 1 ELSE 10 * Pow10(n - 1)

\* flip_value as it would be with the value converted by int(): the
\* fraction is dropped from the text written back.
flip_value_int(value_string, make_negative) ==
    LET trimmed_value == strip(value_string)
        as_float      == float(trimmed_value)
        as_int        == IF as_float.e < 0
                         THEN Normalise(as_float.neg,
                                        as_float.m \div Pow10(0 - as_float.e),
                                        0)
                         ELSE as_float
    IN  IF ~as_float.ok
        THEN [raised |-> TRUE, value_string |-> value_string,
              value_flipped |-> FALSE]
        ELSE IF \/ (IsPositive(as_float) /\ make_negative)
                \/ (IsNegative(as_float) /\ ~make_negative)
        THEN [raised |-> FALSE,
              value_string |->
                  replace(value_string, trimmed_value,
                          str(IF make_negative THEN negabs(as_int)
                                               ELSE abs(as_int))),
              value_flipped |-> TRUE]
        ELSE [raised |-> FALSE, value_string |-> value_string,
              value_flipped |-> FALSE]

flip_value(value_string, make_negative) ==
    LET trimmed_value == strip(value_string)
        as_float      == float(trimmed_value)
    IN  IF ~as_float.ok
        THEN [raised |-> TRUE, value_string |-> value_string,
              value_flipped |-> FALSE]
        ELSE IF \/ (IsPositive(as_float) /\ make_negative)
                \/ (IsNegative(as_float) /\ ~make_negative)
        THEN [raised |-> FALSE,
              value_string |->
                  replace(value_string, trimmed_value,
                          str(IF make_negative THEN negabs(as_float)
                                               ELSE abs(as_float))),
              value_flipped |-> TRUE]
        ELSE [raised |-> FALSE, value_string |-> value_string,
              value_flipped |-> FALSE]

(***************************************************************************)
(* The documents the model draws.                                          *)
(***************************************************************************)
OpenA == <<"<", "A", ">">>
CloseA == <<"<", "/", "A", ">">>
ClosedLeafX == <<"<", "X", ">", "1", "<", "/", "X", ">">>
Balance5 == TARGET_PROPERTY \o <<"5">>
CloseProperty == <<"<", "/", "B", "A", "L", "A", "M", "T", ">">>
ClosePropertyLower == <<"<", "/", "b", "a", "l", "a", "m", "t", ">">>

\* The pieces of the structural family: the target category and another
\* container with their closes, a closed leaf, and a positive balance (a
\* leaf left open) with its close.
Vocabulary ==
    {TARGET_CATEGORY, END_TARGET_CATEGORY, OpenA, CloseA, ClosedLeafX,
     Balance5, CloseProperty}

RECURSIVE DocsOfLen(_)
DocsOfLen(n) ==
    IF n = 0 THEN {<< >>}
    ELSE {d \o p : d \in DocsOfLen(n - 1), p \in Vocabulary}

StructDocs(max) == UNION {DocsOfLen(n) : n \in 0..max}

\* The characters of a BALAMT value: digits, point, sign, whitespace
\* (the newline also moves the line number).
ValueAlphabet == {"5", "0", ".", "-", "\n"}

ValueStrings ==
    UNION {[1..n -> ValueAlphabet] : n \in 0..MaxValueLen}

\* The value family: a balance with every short value text inside
\* LEDGERBAL: alone, after a closed sibling leaf, or one level deeper, in a
\* container A after a closed leaf; with the close of LEDGERBAL present or
\* missing; the property's close in lower case.
ValueDocs ==
    {TARGET_CATEGORY \o pre \o TARGET_PROPERTY \o v
        \o ClosePropertyLower \o post :
        pre \in {<< >>, ClosedLeafX, OpenA \o ClosedLeafX},
        v \in ValueStrings,
        post \in {<< >>, END_TARGET_CATEGORY}}

\* The balance alone under LEDGERBAL, with every short value text.
ValueDocsAlone ==
    {TARGET_CATEGORY \o TARGET_PROPERTY \o v \o ClosePropertyLower :
        v \in ValueStrings}

OpenX == <<"<", "X", ">">>

\* The example of the format: a balance of 150.00, every tag closed.
Example150 ==
    TARGET_CATEGORY \o TARGET_PROPERTY \o <<"1", "5", "0", ".", "0", "0">>
        \o CloseProperty \o END_TARGET_CATEGORY

\* Header text before the first tag, as OFX files have: a container opened
\* and closed at once.
HeaderClose == <<"h">> \o OpenA \o CloseA

\* Header text, then LEDGERBAL > A > X with A closed while X is active, then
\* a balance directly under LEDGERBAL.
HeaderNested ==
    <<"h">> \o TARGET_CATEGORY \o OpenA \o OpenX \o CloseA \o Balance5 \o OpenA

\* Text between a closing tag and the balance under LEDGERBAL.
TextAfterClose ==
    TARGET_CATEGORY \o OpenA \o CloseA \o <<"7">> \o Balance5 \o OpenA

ExampleDocs == {Example150, HeaderClose, HeaderNested, TextAfterClose}

Documents == StructDocs(MaxPieces) \cup ValueDocs \cup ExampleDocs

(***************************************************************************)
(* State.  process_files: the file store, the batch, the loop position     *)
(* and the tally.  update_qfx_contents: its locals, under the source's     *)
(* names.  i counts the characters consumed, so the next character read    *)
(* is file_contents[i + 1].                                                *)
(***************************************************************************)
VARIABLES
    files,                  \* path -> contents: the files on disk
    file_paths,             \* process_files: the batch
    make_balance_negative,  \* process_files: the direction (make_negative)
    idx,                    \* process_files: position of `path` in the batch
    success_count,          \* process_files
    pc,                     \* where the program is
    report,                 \* what process_files printed, per file
    writes,                 \* the paths opened for writing, in order
    ret,                    \* what process_files returned
    history,                \* per run of the tool: direction, files before,
                            \* and once it has ended what it printed
    file_contents,          \* update_qfx_contents: the text being parsed
    state,
    current_tag,
    current_tag_is_leaf,
    category_stack,
    output,
    buffer,
    value_found_count,
    value_flipped_count,
    i,
    line_number,
    updated_contents,       \* the returned triple
    value_found,
    value_updated,
    exc                     \* the exception in flight, if any

fileVars == <<files, file_paths, make_balance_negative, idx, success_count,
              report, writes, ret, history>>

parserVars == <<file_contents, state, current_tag, current_tag_is_leaf,
                category_stack, output, buffer, value_found_count,
                value_flipped_count, i, line_number>>

resultVars == <<updated_contents, value_found, value_updated>>

vars == <<fileVars, parserVars, resultVars, pc, exc>>

\* ParserState
TAG == "TAG"
VALUE == "VALUE"

NoException ==
    [type |-> "none", at |-> 0, text |-> << >>, inside |-> << >>,
     line |-> 0, trace |-> << >>]

num_chars == Len(file_contents)

path == file_paths[idx]

\* The locals of update_qfx_contents as the call leaves them initialised.
EnterParser(contents) ==
    /\ file_contents' = contents
    /\ state' = VALUE
    /\ current_tag' = << >>
    /\ current_tag_is_leaf' = FALSE
    /\ category_stack' = << >>
    /\ output' = << >>
    /\ buffer' = << >>
    /\ value_found_count' = 0
    /\ value_flipped_count' = 0
    /\ i' = 0
    /\ line_number' = 1

\* process_files entered with a batch that validate_files accepts.
StartRun(batch, store, negative, earlier) ==
    /\ files = store
    /\ file_paths = batch
    /\ make_balance_negative = negative
    /\ history = Append(earlier, [negative |-> negative, files |-> store,
                                  report |-> << >>, crashed |-> FALSE])
    /\ idx = 1
    /\ success_count = 0
    /\ pc = "loop"
    /\ report = << >>
    /\ writes = << >>
    /\ ret = "none"
    /\ file_contents = << >>
    /\ state = VALUE
    /\ current_tag = << >>
    /\ current_tag_is_leaf = FALSE
    /\ category_stack = << >>
    /\ output = << >>
    /\ buffer = << >>
    /\ value_found_count = 0
    /\ value_flipped_count = 0
    /\ i = 0
    /\ line_number = 1
    /\ updated_contents = << >>
    /\ value_found = FALSE
    /\ value_updated = FALSE
    /\ exc = NoException

\* One file, one document of the model, either direction.
Init ==
    \E doc \in Documents, negative \in BOOLEAN :
        StartRun(<<1>>, [p \in {1} |-> doc], negative, << >>)

(***************************************************************************)
(* process_files: open the next file, read it, call update_qfx_contents.   *)
(***************************************************************************)
ReadFile ==
    /\ pc = "loop"
    /\ idx <= Len(file_paths)
    /\ EnterParser(files[path])
    /\ pc' = "parse"
    /\ exc' = NoException
    /\ UNCHANGED <<fileVars, resultVars>>

(***************************************************************************)
(* update_qfx_contents.  One step of the model is the run of loop          *)
(* iterations from the present position through the next delimiter: in     *)
(* state TAG the characters up to and including the next ">" (the          *)
(* iterations before it only buffer and `continue`), in state VALUE the    *)
(* characters up to and including the next "<".                            *)
(***************************************************************************)
Range(seq) == {seq[k] : k \in 1..Len(seq)}

RECURSIVE join(_)
\* "".join(parts)
join(parts) == IF parts = << >> THEN << >> ELSE Head(parts) \o join(Tail(parts))

\* The index of the next character c still to be read, 0 when none is left.
NextIndex(c) ==
    LET ks == {k \in (i + 1)..num_chars : file_contents[k] = c}
    IN  IF ks = {} THEN 0 ELSE CHOOSE k \in ks : \A j \in ks : k <= j

\* State TAG at the ">" that ends the tag.
AtTagEnd == pc = "parse" /\ state = TAG /\ NextIndex(">") # 0

\* The tag token as it is appended to the output, and the tag after strip().
RawTag == buffer \o SubSeq(file_contents, i + 1, NextIndex(">"))
Tag == strip(RawTag)

IsClosingTag == startswith(Tag, <<"<", "/">>)

\* closed_category = f"<{tag[2:]}".upper()
closed_category == upper(<<"<">> \o SubSeq(Tag, 3, Len(Tag)))

\* Lines 239-247: the tag is taken from the buffer and appended verbatim.
TakeTag ==
    /\ output' = Append(output, RawTag)
    /\ buffer' = << >>
    /\ i' = NextIndex(">")
    /\ line_number' = line_number
                      + Newlines(SubSeq(file_contents, i + 1, NextIndex(">")))

Raise(e) ==
    /\ exc' = e
    /\ pc' = "raised"

\* Lines 255-263: the closing tag names stack entry closed.  Indices are the
\* source's, from 0.
close_stacked(stack, closed) ==
    LET closed_tag_index ==
            (CHOOSE k \in 1..Len(stack) :
                /\ stack[k] = closed
                /\ \A j \in (k + 1)..Len(stack) : stack[j] # closed) - 1
        new_tag_index == closed_tag_index - 1
    IN  IF new_tag_index > 0
        THEN [current_tag |-> stack[new_tag_index + 1],
              category_stack |-> SubSeq(stack, 1, new_tag_index)]
        ELSE [current_tag |-> << >>, category_stack |-> << >>]

\* Lines 251-252: the closing tag names the active tag; list.pop() of an
\* empty list raises IndexError.
CloseActiveTag ==
    /\ AtTagEnd
    /\ IsClosingTag
    /\ closed_category = current_tag
    /\ TakeTag
    /\ IF category_stack = << >>
       THEN /\ Raise([NoException EXCEPT !.type = "IndexError", !.at = 252])
            /\ UNCHANGED <<current_tag, category_stack>>
       ELSE /\ current_tag' = category_stack[Len(category_stack)]
            /\ category_stack' =
                   SubSeq(category_stack, 1, Len(category_stack) - 1)
            /\ UNCHANGED <<pc, exc>>
    /\ UNCHANGED <<fileVars, resultVars, file_contents, state,
                   current_tag_is_leaf, value_found_count,
                   value_flipped_count>>

\* Lines 254-263.
CloseStackedTag ==
    /\ AtTagEnd
    /\ IsClosingTag
    /\ closed_category # current_tag
    /\ closed_category \in Range(category_stack)
    /\ TakeTag
    /\ current_tag' = close_stacked(category_stack, closed_category).current_tag
    /\ category_stack' =
           close_stacked(category_stack, closed_category).category_stack
    /\ UNCHANGED <<fileVars, resultVars, file_contents, state,
                   current_tag_is_leaf, value_found_count,
                   value_flipped_count, pc, exc>>

\* Lines 265-271: the closing tag names nothing open.  The message reads
\* category_stack[-1], which raises IndexError on an empty stack.
CloseUnmatchedTag ==
    /\ AtTagEnd
    /\ IsClosingTag
    /\ closed_category # current_tag
    /\ closed_category \notin Range(category_stack)
    /\ TakeTag
    /\ IF category_stack = << >>
       THEN Raise([NoException EXCEPT !.type = "IndexError", !.at = 268])
       ELSE Raise([type |-> "SyntaxError", at |-> 266, text |-> Tag,
                   inside |-> category_stack[Len(category_stack)],
                   line |-> line_number',
                   trace |-> [k \in 1..Len(category_stack) |->
                                 Inner(category_stack[k])]])
    /\ UNCHANGED <<fileVars, resultVars, file_contents, state, current_tag,
                   current_tag_is_leaf, category_stack, value_found_count,
                   value_flipped_count>>

\* Line 273: the active tag becomes an ancestor unless it is marked a leaf.
push_active(stack, active, is_leaf) ==
    IF ~is_leaf THEN Append(stack, active) ELSE stack

\* Lines 272-278.
OpenTag ==
    /\ AtTagEnd
    /\ ~IsClosingTag
    /\ TakeTag
    /\ category_stack' =
           push_active(category_stack, current_tag, current_tag_is_leaf)
    /\ current_tag' = upper(Tag)
    /\ current_tag_is_leaf' = FALSE
    /\ state' = VALUE
    /\ UNCHANGED <<fileVars, resultVars, file_contents, value_found_count,
                   value_flipped_count, pc, exc>>

\* State VALUE at the "<" that ends the value fragment.
AtValueEnd == pc = "parse" /\ state = VALUE /\ NextIndex("<") # 0

\* value_string = "".join(buffer): the fragment before the "<".
ValueString == buffer \o SubSeq(file_contents, i + 1, NextIndex("<") - 1)

\* Lines 281-283, 306-308: the fragment is taken, the "<" starts the tag.
TakeValue ==
    /\ buffer' = <<"<">>
    /\ i' = NextIndex("<")
    /\ line_number' = line_number + Newlines(ValueString) - Newlines(buffer)
    /\ state' = TAG

\* at_target as it would be if the parser stopped matching after the first
\* value found.
at_target_first(active, stack) ==
    /\ value_found_count = 0
    /\ active = TARGET_PROPERTY
    /\ stack[Len(stack)] = TARGET_CATEGORY

\* Line 285: the fragment belongs to the target property under the target
\* category.  Evaluated only where category_stack[-1] exists.
at_target(active, stack) ==
    active = TARGET_PROPERTY /\ stack[Len(stack)] = TARGET_CATEGORY

\* Lines 301-302.
marks_leaf(value_string) == Len(value_string) > 0 /\ ~isspace(value_string)

\* Line 285 on an empty stack: category_stack[-1] raises IndexError.
ValueNoParent ==
    /\ AtValueEnd
    /\ current_tag = TARGET_PROPERTY
    /\ category_stack = << >>
    /\ TakeValue
    /\ Raise([NoException EXCEPT !.type = "IndexError", !.at = 285])
    /\ UNCHANGED <<fileVars, resultVars, file_contents, current_tag,
                   current_tag_is_leaf, category_stack, output,
                   value_found_count, value_flipped_count>>

\* Lines 285-306 at the target path.
ValueAtTarget ==
    /\ AtValueEnd
    /\ ~(current_tag = TARGET_PROPERTY /\ category_stack = << >>)
    /\ current_tag = TARGET_PROPERTY
    /\ at_target(current_tag, category_stack)
    /\ TakeValue
    /\ value_found_count' = value_found_count + 1
    /\ LET flipped == flip_value(ValueString, make_balance_negative)
       IN  IF flipped.raised
           THEN /\ Raise([type |-> "ValueError", at |-> 293,
                          text |-> strip(ValueString), inside |-> << >>,
                          line |-> line_number',
                          trace |-> [k \in 1..Len(category_stack) |->
                                        Inner(category_stack[k])]
                                    \o <<Inner(TARGET_PROPERTY)>>])
                /\ UNCHANGED <<value_flipped_count, current_tag_is_leaf,
                               output>>
           ELSE /\ value_flipped_count' =
                       value_flipped_count
                       + (IF flipped.value_flipped THEN 1 ELSE 0)
                /\ current_tag_is_leaf' =
                       (marks_leaf(flipped.value_string)
                        \/ current_tag_is_leaf)
                /\ output' = Append(output, flipped.value_string)
                /\ UNCHANGED <<pc, exc>>
    /\ UNCHANGED <<fileVars, resultVars, file_contents, current_tag,
                   category_stack>>

\* Lines 285, 301-306 off the target path.
ValueElsewhere ==
    /\ AtValueEnd
    /\ ~(current_tag = TARGET_PROPERTY /\ category_stack = << >>)
    /\ ~(current_tag = TARGET_PROPERTY
         /\ at_target(current_tag, category_stack))
    /\ TakeValue
    /\ current_tag_is_leaf' = (marks_leaf(ValueString) \/ current_tag_is_leaf)
    /\ output' = Append(output, ValueString)
    /\ UNCHANGED <<fileVars, resultVars, file_contents, current_tag,
                   category_stack, value_found_count, value_flipped_count,
                   pc, exc>>

\* Lines 231-243, 308, 311-314: no delimiter is left, the loop buffers the
\* rest and ends; the triple is returned.
ReturnContents ==
    /\ pc = "parse"
    /\ NextIndex(IF state = TAG THEN ">" ELSE "<") = 0
    /\ LET rest == SubSeq(file_contents, i + 1, num_chars)
       IN  /\ buffer' = buffer \o rest
           /\ line_number' = line_number + Newlines(rest)
    /\ i' = num_chars
    /\ output' = Append(output, buffer')
    /\ updated_contents' =
           IF value_flipped_count = 0 THEN file_contents ELSE join(output')
    /\ value_found' = (value_found_count >= 1)
    /\ value_updated' = (value_flipped_count >= 1)
    /\ pc' = "returned"
    /\ UNCHANGED <<fileVars, file_contents, state, current_tag,
                   current_tag_is_leaf, category_stack, value_found_count,
                   value_flipped_count, exc>>

(***************************************************************************)
(* process_files, after the call.                                          *)
(***************************************************************************)
\* WriteFile as it would be without the test of value_updated: the returned
\* text is written back whenever the parse returns.
WriteFile_always ==
    /\ pc = "returned"
    /\ files' = [files EXCEPT ![path] = updated_contents]
    /\ writes' = Append(writes, path)
    /\ pc' = "written"
    /\ UNCHANGED <<file_paths, make_balance_negative, idx, success_count,
                   report, ret, history, parserVars, resultVars, exc>>

\* Lines 116-118.
WriteFile ==
    /\ pc = "returned"
    /\ value_updated
    /\ files' = [files EXCEPT ![path] = updated_contents]
    /\ writes' = Append(writes, path)
    /\ pc' = "written"
    /\ UNCHANGED <<file_paths, make_balance_negative, idx, success_count,
                   report, ret, history, parserVars, resultVars, exc>>

\* ReportFile as it would be with the not-found warning not leaving the
\* iteration: the file is counted as a success all the same.
ReportFile_lenient ==
    /\ pc = "written" \/ (pc = "returned" /\ ~value_updated)
    /\ success_count' = success_count + 1
    /\ report' = Append(report, IF ~value_found THEN "warning"
                                ELSE IF value_updated THEN "flipped"
                                ELSE "already")
    /\ idx' = idx + 1
    /\ pc' = "loop"
    /\ UNCHANGED <<files, file_paths, make_balance_negative, writes, ret,
                   history, parserVars, resultVars, exc>>

\* Lines 120-137: the warning or the success message, then the next file.
ReportFile ==
    /\ pc = "written" \/ (pc = "returned" /\ ~value_updated)
    /\ IF ~value_found
       THEN /\ report' = Append(report, "warning")
            /\ UNCHANGED success_count
       ELSE /\ success_count' = success_count + 1
            /\ report' = Append(report, IF value_updated THEN "flipped"
                                        ELSE "already")
    /\ idx' = idx + 1
    /\ pc' = "loop"
    /\ UNCHANGED <<files, file_paths, make_balance_negative, writes, ret,
                   history, parserVars, resultVars, exc>>

\* Lines 139-146: SyntaxError and ValueError are reported, the loop goes on.
CatchError ==
    /\ pc = "raised"
    /\ exc.type \in {"SyntaxError", "ValueError"}
    /\ report' = Append(report, "error")
    /\ idx' = idx + 1
    /\ pc' = "loop"
    /\ UNCHANGED <<files, file_paths, make_balance_negative, success_count,
                   writes, ret, history, parserVars, resultVars, exc>>

\* Line 139: any other exception leaves process_files and ends the program.
Propagate ==
    /\ pc = "raised"
    /\ exc.type \notin {"SyntaxError", "ValueError"}
    /\ pc' = "crashed"
    /\ UNCHANGED <<fileVars, parserVars, resultVars, exc>>

\* Lines 149-161.
ReturnSuccess ==
    /\ pc = "loop"
    /\ idx > Len(file_paths)
    /\ ret' = (success_count = Len(file_paths))
    /\ pc' = "done"
    /\ UNCHANGED <<files, file_paths, make_balance_negative, idx,
                   success_count, report, writes, history, parserVars,
                   resultVars, exc>>

Next ==
    \/ ReadFile
    \/ CloseActiveTag
    \/ CloseStackedTag
    \/ CloseUnmatchedTag
    \/ OpenTag
    \/ ValueNoParent
    \/ ValueAtTarget
    \/ ValueElsewhere
    \/ ReturnContents
    \/ WriteFile
    \/ ReportFile
    \/ CatchError
    \/ Propagate
    \/ ReturnSuccess

Spec == Init /\ [][Next]_vars

(***************************************************************************)
(* The tool run a second time on the same file, in either direction        *)
(* (main with or without --undo): the second run reads what the first      *)
(* left on disk.                                                           *)
(***************************************************************************)
DocumentsTwice == StructDocs(MaxPieces - 1) \cup ValueDocsAlone

InitTwice ==
    \E doc \in DocumentsTwice, negative \in BOOLEAN :
        StartRun(<<1>>, [p \in {1} |-> doc], negative, << >>)

RunAgain ==
    /\ pc \in {"done", "crashed"}
    /\ Len(history) < 2
    /\ \E negative \in BOOLEAN :
          /\ make_balance_negative' = negative
          /\ history' =
                 Append([history EXCEPT
                            ![Len(history)].report = report,
                            ![Len(history)].crashed = (pc = "crashed")],
                        [negative |-> negative, files |-> files,
                         report |-> << >>, crashed |-> FALSE])
    /\ idx' = 1
    /\ success_count' = 0
    /\ report' = << >>
    /\ writes' = << >>
    /\ ret' = "none"
    /\ exc' = NoException
    /\ pc' = "loop"
    /\ UNCHANGED <<files, file_paths, parserVars, resultVars>>

NextTwice == Next \/ RunAgain

SpecTwice == InitTwice /\ [][NextTwice]_vars

(***************************************************************************)
(* process_files on a batch of up to MaxFiles files, each holding one of   *)
(* a few documents, one per outcome of the parse.                          *)
(***************************************************************************)
BatchDocs ==
    {\* a positive and a negative balance under LEDGERBAL
     TARGET_CATEGORY \o Balance5 \o OpenA,
     TARGET_CATEGORY \o TARGET_PROPERTY \o <<"-", "5">> \o ClosePropertyLower,
     \* no balance
     OpenA \o CloseA,
     OpenA \o TARGET_CATEGORY \o CloseA,
     \* SyntaxError, ValueError
     OpenA \o END_TARGET_CATEGORY,
     TARGET_CATEGORY \o TARGET_PROPERTY \o ClosePropertyLower,
     \* IndexError
     CloseA,
     Balance5 \o CloseProperty \o Balance5 \o CloseProperty}

InitBatch ==
    \E n \in 1..MaxFiles :
        \E store \in [1..n -> BatchDocs], negative \in BOOLEAN :
            StartRun([k \in 1..n |-> k], store, negative, << >>)

SpecBatch == InitBatch /\ [][Next]_vars


(***************************************************************************)
(* The document format as the specification defines it, independently of   *)
(* the parser: tag tokens, value fragments, and which tags are open.       *)
(*                                                                         *)
(* A tag token runs from "<" through the next ">".  A value fragment is    *)
(* the text between a tag's ">" and the next "<" (possibly empty); text    *)
(* that no "<" follows is no value fragment.  A tag whose value fragment   *)
(* holds non-whitespace text is a leaf, closed by the next tag; any other  *)
(* tag stays open until its explicit close.                                *)
(***************************************************************************)
\* The fragments of text in order: the text before the first tag, then tag,
\* value, tag, value, ...; kind "rest" is what no delimiter ends.
RECURSIVE Fragments(_)
Fragments(s) ==
    LET lt == Find(s, {"<"})
        gt == Find(s, {">"})
    IN  IF s = << >> THEN << >>
        ELSE IF Head(s) = "<"
        THEN IF gt = 0 THEN <<[kind |-> "rest", text |-> s]>>
             ELSE <<[kind |-> "tag", text |-> SubSeq(s, 1, gt)]>>
                  \o (IF gt < Len(s) /\ s[gt + 1] = "<"
                      THEN <<[kind |-> "value", text |-> << >>]>>
                      ELSE << >>)
                  \o Fragments(SubSeq(s, gt + 1, Len(s)))
        ELSE IF lt = 0 THEN <<[kind |-> "rest", text |-> s]>>
        ELSE <<[kind |-> "value", text |-> SubSeq(s, 1, lt - 1)]>>
             \o Fragments(SubSeq(s, lt, Len(s)))

FormatIsClose(tag) == startswith(tag, <<"<", "/">>)

FormatName(tag) ==
    IF FormatIsClose(tag) THEN upper(<<"<">> \o SubSeq(tag, 3, Len(tag)))
    ELSE upper(tag)

\* The open tags after an opening tag: a leaf on top is closed by it.
FormatOpen(open, tag) ==
    Append(IF open # << >> /\ open[Len(open)].leaf
           THEN SubSeq(open, 1, Len(open) - 1) ELSE open,
           [name |-> FormatName(tag), leaf |-> FALSE])

\* The open tags after a closing tag: a leaf on top that it does not name is
\* closed by it, then the named tag is closed with all that is inside it.
FormatClose(open, tag) ==
    LET rest == IF /\ open # << >>
                   /\ open[Len(open)].leaf
                   /\ open[Len(open)].name # FormatName(tag)
                THEN SubSeq(open, 1, Len(open) - 1) ELSE open
        at   == {k \in 1..Len(rest) : rest[k].name = FormatName(tag)}
    IN  IF at = {} THEN rest
        ELSE SubSeq(rest, 1, (CHOOSE k \in at : \A j \in at : j <= k) - 1)

\* The value fragments at the target path, in document order: those owned
\* by a TARGET_PROPERTY tag whose parent is TARGET_CATEGORY.
RECURSIVE FormatTargets(_, _, _)
FormatTargets(frags, open, owned) ==
    IF frags = << >> THEN << >>
    ELSE LET f == Head(frags)
             n == Len(open)
         IN  IF f.kind = "tag" /\ FormatIsClose(f.text)
             THEN FormatTargets(Tail(frags), FormatClose(open, f.text), FALSE)
             ELSE IF f.kind = "tag"
             THEN FormatTargets(Tail(frags), FormatOpen(open, f.text), TRUE)
             ELSE IF f.kind = "value" /\ owned /\ n >= 1
             THEN (IF /\ n >= 2
                      /\ open[n].name = TARGET_PROPERTY
                      /\ open[n - 1].name = TARGET_CATEGORY
                   THEN <<f.text>> ELSE << >>)
                  \o FormatTargets(Tail(frags),
                                   [open EXCEPT ![n].leaf =
                                       (@ \/ marks_leaf(f.text))],
                                   FALSE)
             ELSE FormatTargets(Tail(frags), open, FALSE)

\* For every fragment of frags, in order: the tags open just before it and
\* whether it is a value fragment at the target path.
RECURSIVE FormatWalk(_, _, _)
FormatWalk(frags, open, owned) ==
    IF frags = << >> THEN << >>
    ELSE LET f == Head(frags)
             n == Len(open)
             target == /\ f.kind = "value" /\ owned /\ n >= 2
                       /\ open[n].name = TARGET_PROPERTY
                       /\ open[n - 1].name = TARGET_CATEGORY
             here == <<[open |-> open, at_target |-> target]>>
         IN  IF f.kind = "tag" /\ FormatIsClose(f.text)
             THEN here \o FormatWalk(Tail(frags), FormatClose(open, f.text),
                                     FALSE)
             ELSE IF f.kind = "tag"
             THEN here \o FormatWalk(Tail(frags), FormatOpen(open, f.text),
                                     TRUE)
             ELSE IF f.kind = "value" /\ owned /\ n >= 1
             THEN here \o FormatWalk(Tail(frags),
                                     [open EXCEPT ![n].leaf =
                                         (@ \/ marks_leaf(f.text))],
                                     FALSE)
             ELSE here \o FormatWalk(Tail(frags), open, FALSE)

\* The walk of a whole text.
Walk(text) == FormatWalk(Fragments(text), << >>, FALSE)

\* The values at the target path (BALAMT directly under LEDGERBAL).
TargetValues(text) == FormatTargets(Fragments(text), << >>, FALSE)

\* v has the sign opposite to the requested one.
OppositeSign(v, negative) ==
    IF negative THEN IsPositive(float(v)) ELSE IsNegative(float(v))

\* v has the requested sign already, or is zero.
RequestedSign(v, negative) == float(v).ok /\ ~OppositeSign(v, negative)

\* Two floats are the same number.
NumEq(x, y) ==
    /\ x.ok /\ y.ok /\ x.m = y.m /\ x.e = y.e
    /\ (x.m = 0 \/ x.neg = y.neg)

\* The whitespace around the value of a fragment.
LeadingSpace(v) == SubSeq(v, 1, Len(v) - Len(lstrip(v)))
TrailingSpace(v) == SubSeq(v, Len(rstrip(v)) + 1, Len(v))

\* b is a with nothing changed but numeric literals, each replaced by a
\* literal of the same magnitude: every tag token and every other fragment
\* is the same text at the same place.
OnlyLiteralsDiffer(a, b) ==
    LET fa == Fragments(a)
        fb == Fragments(b)
    IN  /\ Len(fa) = Len(fb)
        /\ \A k \in 1..Len(fa) :
              \/ fa[k] = fb[k]
              \/ /\ fa[k].kind = "value" /\ fb[k].kind = "value"
                 /\ LeadingSpace(fa[k].text) = LeadingSpace(fb[k].text)
                 /\ TrailingSpace(fa[k].text) = TrailingSpace(fb[k].text)
                 /\ NumEq(abs(float(fa[k].text)), abs(float(fb[k].text)))


(***************************************************************************)
(* The claims.                                                             *)
(***************************************************************************)
Top(stack) == stack[Len(stack)]

\* The first run of the tool ended with update_qfx_contents returning.
FirstRunReturned ==
    /\ Len(history) = 2
    /\ ~history[1].crashed
    /\ history[1].report # <<"error">>

\* C1: whenever update_qfx_contents returns for a document holding, at the
\* target path (BALAMT directly under LEDGERBAL), a value whose sign is
\* opposite to the requested one, it reports found and changed, and the
\* returned text differs from the input only in numeric literals.
C1_OppositeSignChanged ==
    (/\ pc = "returned"
     /\ \E v \in Range(TargetValues(file_contents)) :
           OppositeSign(v, make_balance_negative))
    => /\ value_found
       /\ value_updated
       /\ OnlyLiteralsDiffer(file_contents, updated_contents)

\* C2: whenever update_qfx_contents returns for a document whose values at
\* the target path all have the requested sign already, or are zero, it
\* reports found and not changed and returns the input text itself.
C2_RequestedSignUnchanged ==
    (/\ pc = "returned"
     /\ TargetValues(file_contents) # << >>
     /\ \A v \in Range(TargetValues(file_contents)) :
           RequestedSign(v, make_balance_negative))
    => /\ value_found
       /\ ~value_updated
       /\ updated_contents = file_contents

\* C3: whenever update_qfx_contents returns for a document with no value at
\* the target path, it reports not found and not changed and returns the
\* input text itself.
C3_AbsentNotFound ==
    (pc = "returned" /\ TargetValues(file_contents) = << >>)
    => /\ ~value_found
       /\ ~value_updated
       /\ updated_contents = file_contents

\* C4: in <A><B>text</B><C>..., when the value fragment of C is about to
\* be examined the top of the category stack is A, and B is not in the
\* stack.  Here A is LEDGERBAL or the container A, B the leaf X and C the
\* balance.
C4_SiblingSeesParent ==
    \A a \in {TARGET_CATEGORY, OpenA} :
        (/\ AtValueEnd
         /\ SubSeq(file_contents, 1, i) = a \o ClosedLeafX \o TARGET_PROPERTY)
        => /\ category_stack # << >>
           /\ Top(category_stack) = a
           /\ <<"<", "X", ">">> \notin Range(category_stack)

\* C5: a closing tag that names neither the active tag nor any stack entry,
\* the stack being empty or not, makes update_qfx_contents fail with the
\* SyntaxError that carries the closing tag, and the file is not written.
C5_UnmatchedCloseIsSyntaxError ==
    (pc \in {"raised", "crashed"} /\ exc.at \in {266, 268})
    => /\ exc.type = "SyntaxError"
       /\ FormatIsClose(exc.text)
       /\ exc.line = line_number
       /\ writes = << >>

\* C6: update_qfx_contents never returns for a document holding, at the
\* target path, a value fragment that is no number (it fails with the
\* ValueError), and a file whose parse failed so is not written.
C6_NonNumericIsValueError ==
    /\ pc = "returned"
       => \A v \in Range(TargetValues(file_contents)) : float(v).ok
    /\ (pc = "raised" /\ exc.type = "ValueError") => writes = << >>

\* C7: update_qfx_contents ends by returning its triple, by the
\* SyntaxError or by the ValueError, and in no other way.
C7_ThreeOutcomes ==
    exc.type \in {"none", "SyntaxError", "ValueError"}

\* C8: when a first make-negative run parsed the file, a second
\* make-negative run on what it left returns that text again and reports
\* changed = false.
C8_Idempotent ==
    (/\ FirstRunReturned
     /\ history[1].negative
     /\ make_balance_negative
     /\ pc \in {"returned", "raised"})
    => /\ pc = "returned"
       /\ ~value_updated
       /\ updated_contents = history[2].files[path]

\* C8's case: the first run flipped a value and the second has returned.
C8_Witness ==
    /\ FirstRunReturned
    /\ history[1].negative
    /\ history[1].report = <<"flipped">>
    /\ make_balance_negative
    /\ pc = "returned"
    /\ history[2].files[path] # history[1].files[path]

\* The round trip's two runs have returned: make negative, then make
\* positive on what the first left.
RoundTripDone ==
    /\ FirstRunReturned
    /\ history[1].negative
    /\ ~make_balance_negative
    /\ pc = "returned"

Reported(kinds) == {file_paths[k] : k \in {j \in 1..Len(report) : report[j] \in kinds}}

\* C11: a file is written only in a step taken after update_qfx_contents
\* returned for it with changed = true, and then with the whole returned
\* text; a file whose parse failed, or returned changed = false, holds what
\* it held when the run began.
C11_WriteOnlyAfterChanged ==
    [][/\ (writes' # writes \/ files' # files)
          => /\ pc = "returned"
             /\ value_updated
             /\ writes' = Append(writes, path)
             /\ files' = [files EXCEPT ![path] = updated_contents]
       /\ \A p \in Reported({"error", "warning", "already"})' :
             /\ files'[p] = history[1].files[p]
             /\ p \notin Range(writes')
       /\ pc' \in {"raised", "crashed"} => path \notin Range(writes')
      ]_vars

\* C11's case: in one batch the first file failed to parse and was left
\* alone, the second was flipped and written.
C11_Witness ==
    /\ Len(file_paths) = 2
    /\ report = <<"error", "flipped">>
    /\ writes = <<2>>
    /\ files[1] = history[1].files[1]
    /\ files[2] # history[1].files[2]

\* C12: whenever process_files ends, it ends by returning, with every file
\* of the batch read and reported, and with False when a parse failed.
C12_FailureIsPerDocument ==
    pc \in {"done", "crashed"}
    => /\ pc = "done"
       /\ Len(report) = Len(file_paths)
       /\ "error" \in Range(report) => ret = FALSE

\* C13: process_files returns True exactly when update_qfx_contents
\* returned for every file of the batch with found = true (changed or not);
\* one file not found or failed makes it False.
C13_SuccessIffAllFound ==
    pc = "done"
    => /\ Len(report) = Len(file_paths)
       /\ ret \in BOOLEAN
       /\ ret <=> \A k \in 1..Len(report) : report[k] \in {"flipped", "already"}

\* C13's case: a batch returned False because one of its two files was not
\* found, the other file being flipped.
C13_Witness ==
    /\ pc = "done"
    /\ Len(file_paths) = 2
    /\ ret = FALSE
    /\ "warning" \in Range(report)
    /\ "flipped" \in Range(report)

\* The example document with the balance literal replaced by text.
Example150With(literal) ==
    TARGET_CATEGORY \o TARGET_PROPERTY \o literal
        \o CloseProperty \o END_TARGET_CATEGORY

\* update_qfx_contents has ended on the example document, in any way.
Example150Ended ==
    file_contents = Example150 /\ pc \in {"returned", "raised", "crashed"}

\* C14 as stated: on <LEDGERBAL><BALAMT>150.00</BALAMT></LEDGERBAL>, make
\* negative returns the document with -150.00, found and changed; make
\* positive returns the input, found and not changed.
C14_ExampleKeepsDigits ==
    Example150Ended
    => /\ pc = "returned"
       /\ value_found
       /\ value_updated = make_balance_negative
       /\ updated_contents =
              IF make_balance_negative
              THEN Example150With(<<"-", "1", "5", "0", ".", "0", "0">>)
              ELSE Example150

\* C14 amended: on the same document make negative returns the document
\* with the literal rewritten as -150.0 (the shortest text of the float, not
\* the digits of the input), found and changed; make positive returns the
\* input, found and not changed.
C14_ExampleReformats ==
    Example150Ended
    => /\ pc = "returned"
       /\ value_found
       /\ value_updated = make_balance_negative
       /\ updated_contents =
              IF make_balance_negative
              THEN Example150With(<<"-", "1", "5", "0", ".", "0">>)
              ELSE Example150

\* C14's case: the example document, made negative, has been returned.
C14_Witness ==
    /\ file_contents = Example150
    /\ make_balance_negative
    /\ pc = "returned"
    /\ value_updated

\* C15: in the text update_qfx_contents returns, a fragment differs from
\* the input only where the input has a value fragment owned by BALAMT whose
\* actual parent, the innermost tag still open, is LEDGERBAL.
C15_OnlyTargetPathModified ==
    pc = "returned"
    => LET before == Fragments(file_contents)
           after  == Fragments(updated_contents)
           walk   == Walk(file_contents)
       IN  /\ Len(before) = Len(after)
           /\ \A k \in 1..Len(before) :
                 before[k] # after[k] => walk[k].at_target

\* C16: a closing tag that names the active tag pops exactly one level: the
\* active tag becomes the entry that was on top of the stack, or empty when
\* the stack is empty, and the parse goes on.
C16_Rule1PopsOneLevel ==
    [][(AtTagEnd /\ IsClosingTag /\ closed_category = current_tag)
       => /\ pc' = "parse"
          /\ IF category_stack = << >>
             THEN current_tag' = << >> /\ category_stack' = << >>
             ELSE /\ current_tag' = Top(category_stack)
                  /\ category_stack' =
                         SubSeq(category_stack, 1, Len(category_stack) - 1)
      ]_vars

\* C17: a closing tag that names stack entry T, not the active tag, discards
\* the stack from its top down to and including the last T; the active tag
\* becomes the entry just below T, or empty when there is none, and the
\* entries below that one stay.
C17_Rule2KeepsBelow ==
    [][(/\ AtTagEnd /\ IsClosingTag
        /\ closed_category # current_tag
        /\ closed_category \in Range(category_stack))
       => LET at == {k \in 1..Len(category_stack) :
                        category_stack[k] = closed_category}
              t  == CHOOSE k \in at : \A j \in at : j <= k
          IN  /\ current_tag' = IF t >= 2 THEN category_stack[t - 1]
                                ELSE << >>
              /\ category_stack' = SubSeq(category_stack, 1, t - 2)
      ]_vars

\* C18: while the leaf flag is set, the last thing read is a value fragment
\* with non-whitespace text, and the tag before it is the opening tag that
\* is the active tag (before the first tag, the active tag is empty).
C18_LeafFlagOwnedByActiveTag ==
    (pc = "parse" /\ current_tag_is_leaf)
    => LET frs == Fragments(join(output) \o <<"<">>)
           n   == Len(frs) - 1
       IN  /\ n >= 1
           /\ frs[n].kind = "value"
           /\ marks_leaf(frs[n].text)
           /\ IF n >= 2
              THEN /\ frs[n - 1].kind = "tag"
                   /\ ~FormatIsClose(frs[n - 1].text)
                   /\ FormatName(frs[n - 1].text) = current_tag
              ELSE current_tag = << >>

\* C19: once the ">" of a tag has been read, of a closing tag as of an
\* opening tag, the tokenizer is in state VALUE; so every tag token starts
\* at its "<", with no text of the fragment before it.
C19_EveryTagEntersValue ==
    /\ (pc = "parse" /\ i > 0 /\ file_contents[i] = ">") => state = VALUE
    /\ AtTagEnd => Head(RawTag) = "<"

\* C20: the SyntaxError is raised only at a closing tag that names no tag
\* open at that place under the rules of the format.
C20_SyntaxErrorOnlyIfNotOpen ==
    (pc = "raised" /\ exc.type = "SyntaxError")
    => LET walk == Walk(join(output))
           open == walk[Len(walk)].open
       IN  \A k \in 1..Len(open) : open[k].name # FormatName(exc.text)

=============================================================================
